---- MODULE Spec2Model ----
(***************************************************************************)
(* Model of the scroll choreography of src/src/Portfolio2.jsx: the wheel   *)
(* snap stepper (Portfolio.onWheel), the progress-bar markers (ScrollBar), *)
(* the rendered frame (ScrollSmoother, CameraController, the project       *)
(* cards and their scan lines, BioSection), the ethos checkpoint counter   *)
(* (EthosOverlay) and React's renders of the state the callbacks request.  *)
(*                                                                         *)
(* Real numbers are fixed-point integers.  Progress, the velocity estimate *)
(* and damping factors are kept at nine decimals (units of 1/FINE), the    *)
(* field of view at seven decimals of a degree, frame deltas in            *)
(* milliseconds.  Products of two nine-digit numbers are formed from       *)
(* three-digit limbs and rounded to the nearest unit.  The constants of    *)
(* the source are written in the unit that makes them integers (progress   *)
(* in hundredths or thousandths) and scaled where they are used.           *)
(***************************************************************************)
EXTENDS Integers, Sequences, FiniteSets

\* ------------------------------------------------------------------------
\* Number representation
\* ------------------------------------------------------------------------
SCALE == 10 * 10                  \* hundredths per 1.0
GRID == SCALE * SCALE             \* grid points per 1.0 of progress
MS == 10 * 10 * 10                \* milliseconds per second
LIMB == 10 * 10 * 10
FINE == LIMB * LIMB * LIMB        \* 1.0 at nine decimals
MICRO == LIMB * LIMB              \* microseconds per second
Hundredth == FINE \div SCALE      \* 0.01 of progress
Thousandth == FINE \div LIMB      \* 0.001 of progress

\* ------------------------------------------------------------------------
\* Inputs the environment can deliver
\* ------------------------------------------------------------------------
\* frame deltas (ms) handed to the useFrame callbacks: a repeated timestamp,
\* a slow frame, a frame after a stall
Deltas == {0, 100, 1000}

\* wheel pulses are multiples of PulseUnit up to MaxPulseSteps of them
MaxPulseSteps == 3
\* pulses of one burst that arrive after its trigger are counted up to here
MaxBurst == 3
\* a damping interval is cut into at most this many steps
MaxParts == 1000
\* frames counted after a mount with a configuration under test
MaxTicks == 3

\* ------------------------------------------------------------------------
\* Configuration
\* ------------------------------------------------------------------------
\* variant: the second and third stop exchanged
SECTION_STOPS_Exchanged == <<0, 22, 16, 44, 62, 80, 96>>
\* variant: the last stop sits on the final keyframe
SECTION_STOPS_LastAtEnd == <<0, 16, 22, 44, 62, 80, 100>>
SECTION_STOPS == <<0, 16, 22, 44, 62, 80, 96>>   \* hundredths of progress
StopCount == Len(SECTION_STOPS)
WHEEL_THRESHOLD == 60
\* two pulses of this size reach the threshold exactly
PulseUnit == WHEEL_THRESHOLD \div 2
\* e.deltaY of a wheel event
Pulses == {k * PulseUnit : k \in (-MaxPulseSteps..MaxPulseSteps) \ {0}}
SCROLL_SMOOTHING == 3
VELOCITY_SMOOTHING == 14
VELOCITY_GAIN == 40
ETHOS_ENTER == 8                  \* hundredths of progress
ETHOS_EXIT == 24
THRESHOLDS == <<12, 48, 80>>      \* hundredths of the ethos section
FADE_BAND == 25                   \* thousandths of progress
FOV_SMOOTHING == 6
FOV_KICK == 12                    \* degrees of fov per unit of velocity
\* camera keyframes: t in hundredths, fov in degrees, pos, look and roll in
\* tenths of their unit
ETHOS_POS == <<700, 0, -150>>
CAMERA_PATH == <<
    [t |-> 0,   pos |-> <<0, 10, 160>>,     look |-> <<0, 0, 0>>,         fov |-> 70, roll |-> 0],
    [t |-> 8,   pos |-> <<400, 3, 140>>,    look |-> ETHOS_POS,           fov |-> 64, roll |-> 0],
    [t |-> 24,  pos |-> <<650, 0, 120>>,    look |-> ETHOS_POS,           fov |-> 60, roll |-> 0],
    [t |-> 30,  pos |-> <<800, 5, 120>>,    look |-> <<800, 0, 0>>,       fov |-> 68, roll |-> 0],
    [t |-> 38,  pos |-> <<1000, 0, 90>>,    look |-> <<1000, 0, 0>>,      fov |-> 62, roll |-> -10],
    [t |-> 44,  pos |-> <<1000, 0, 60>>,    look |-> <<1000, 0, 0>>,      fov |-> 52, roll |-> 0],
    [t |-> 52,  pos |-> <<1100, 3, 100>>,   look |-> <<1100, 0, 0>>,      fov |-> 60, roll |-> 10],
    [t |-> 58,  pos |-> <<1200, 0, 90>>,    look |-> <<1200, 0, 0>>,      fov |-> 58, roll |-> -5],
    [t |-> 62,  pos |-> <<1200, 0, 60>>,    look |-> <<1200, 0, 0>>,      fov |-> 52, roll |-> 0],
    [t |-> 70,  pos |-> <<1300, 3, 100>>,   look |-> <<1300, 0, 0>>,      fov |-> 60, roll |-> 5],
    [t |-> 76,  pos |-> <<1400, 0, 90>>,    look |-> <<1400, 0, 0>>,      fov |-> 58, roll |-> -5],
    [t |-> 80,  pos |-> <<1400, 0, 60>>,    look |-> <<1400, 0, 0>>,      fov |-> 52, roll |-> 0],
    [t |-> 86,  pos |-> <<1400, 0, 0>>,     look |-> <<1400, -10, -200>>, fov |-> 42, roll |-> 0],
    [t |-> 93,  pos |-> <<1400, 0, -150>>,  look |-> <<1400, -10, -350>>, fov |-> 42, roll |-> 0],
    [t |-> 100, pos |-> <<1400, 0, -250>>,  look |-> <<1400, -10, -450>>, fov |-> 42, roll |-> 0] >>
PathLength == Len(CAMERA_PATH)
POSE == MICRO \div 10             \* pos, look, roll units per tenth
INITIAL_FOV == 70                 \* <Canvas camera={{ fov: 70 }}>, degrees
FOVSCALE == FINE \div SCALE       \* cameraFov units per degree

\* progress of stop i (0-based), at nine decimals
StopProgress(i) == SECTION_STOPS[i + 1] * Hundredth

\* ------------------------------------------------------------------------
\* Utilities
\* ------------------------------------------------------------------------
Min(a, b) == IF a <= b THEN a ELSE b
Max(a, b) == IF a >= b THEN a ELSE b
Abs(a) == IF a >= 0 THEN a ELSE -a
clamp(val, lo, hi) == Max(lo, Min(hi, val))

\* a * b / FINE rounded to the nearest unit, for 0 <= a, b <= 2 * FINE
MulFine(a, b) ==
    LET a2 == a \div (LIMB * LIMB)
        a1 == (a \div LIMB) % LIMB
        a0 == a % LIMB
        b2 == b \div (LIMB * LIMB)
        b1 == (b \div LIMB) % LIMB
        b0 == b % LIMB
        c4 == a2 * b2
        c3 == a2 * b1 + a1 * b2
        c2 == a2 * b0 + a1 * b1 + a0 * b2
        c1 == a1 * b0 + a0 * b1
        c0 == a0 * b0
        low == c1 * LIMB + c0
    IN c4 * LIMB + c3 + (c2 + LIMB \div 2 + low \div (LIMB * LIMB)) \div LIMB

\* the same product for operands of either sign
MulSigned(a, b) ==
    IF (a < 0) = (b < 0) THEN MulFine(Abs(a), Abs(b))
    ELSE -MulFine(Abs(a), Abs(b))

\* round(FINE * exp(-2^k / MICRO)) for k = 0..24
ExpFineBits ==
    <<999999000, 999998000, 999996000, 999992000, 999984000,
      999968001, 999936002, 999872008, 999744033, 999488131,
      998976524, 997954096, 995912377, 991841463, 983749488,
      967763055, 936565330, 877154617, 769400222, 591976702,
      350436415, 122805681, 15081235, 227444, 52>>

RECURSIVE ExpFineAcc(_, _, _)
ExpFineAcc(x, k, acc) ==
    IF x = 0 THEN acc
    ELSE ExpFineAcc(x \div 2, k + 1,
                    IF x % 2 = 1 THEN MulFine(acc, ExpFineBits[k]) ELSE acc)

\* Math.exp(-x / MICRO) as a factor in 1/FINE, x >= 0 an integer
ExpFine(x) ==
    IF x >= 32 * MICRO THEN 0 ELSE ExpFineAcc(x, 1, FINE)

\* THREE.MathUtils.lerp(x, y, t) = (1 - t) * x + t * y
lerpFine(x, y, t) == MulSigned(FINE - t, x) + MulSigned(t, y)

\* variant: the factor is smoothing * delta, capped at 1
dampFineLinear(current, target, smoothing, delta) ==
    lerpFine(current, target,
             IF smoothing * delta >= MICRO THEN FINE
             ELSE smoothing * delta * LIMB)

\* THREE.MathUtils.damp(current, target, smoothing, delta)
\*   = lerp(current, target, 1 - Math.exp(-smoothing * delta)), delta in
\* microseconds
dampFine(current, target, smoothing, delta) ==
    lerpFine(current, target, FINE - ExpFine(smoothing * delta))

\* variant: the factor is 1 + exp(..) instead of 1 - exp(..)
dampValueSignSlip(current, target, smoothing, delta) ==
    lerpFine(current, target, FINE + ExpFine(smoothing * delta * LIMB))

\* variant: the factor is smoothing * delta, with no exponential; factors
\* past 2 count as 2
dampValueLinear(current, target, smoothing, delta) ==
    lerpFine(current, target,
             IF smoothing * delta >= 2 * MS THEN 2 * FINE
             ELSE smoothing * delta * MICRO)

\* the factor 1 - Math.exp(-smoothing * delta) of the damping calls the
\* page makes: for each smoothing it uses and each frame delta (ms)
Smoothings == {SCROLL_SMOOTHING, FOV_SMOOTHING, VELOCITY_SMOOTHING}
DampFactor ==
    [smoothing \in Smoothings, delta \in Deltas |->
        FINE - ExpFine(smoothing * delta * LIMB)]

\* dampValue(current, target, smoothing, delta), delta in milliseconds
dampValue(current, target, smoothing, delta) ==
    lerpFine(current, target, DampFactor[smoothing, delta])

\* ------------------------------------------------------------------------
\* IEEE doubles where the code compares an accumulated double with a
\* decimal literal (BioSection's timer)
\* ------------------------------------------------------------------------
\* timerRef.current is a double and `timerRef.current += delta` a double
\* addition, rounded to nearest.  The record [ms, off] stands for the
\* double (ms * 2^56 + off) / (1000 * 2^56) seconds: ms is the nominal
\* time in milliseconds and off what the double is away from it, in
\* thousandths of 2^-56 s.  Every double from 0.0625 s to 8 s is a whole
\* number of 2^-56 s, and so is 0.
\* 2^56 modulo m, as seven multiplications by 2^8
TwoTo56Mod(m) ==
    LET b(x) == (x * 256) % m
    IN b(b(b(b(b(b(b(1 % m)))))))

\* x >= ms / 1000 and x > y, on the exact values
AtLeast(x, ms) == x.ms > ms \/ (x.ms = ms /\ x.off >= 0)
Greater(x, y) == x.ms > y.ms \/ (x.ms = y.ms /\ x.off > y.off)

\* the spacing of the doubles around x, in units of 2^-56 s: 2^-52 of the
\* power of two at or below x
Ulp(x) ==
    IF AtLeast(x, 4000) THEN 64
    ELSE IF AtLeast(x, 2000) THEN 32
    ELSE IF AtLeast(x, 1000) THEN 16
    ELSE IF AtLeast(x, 500) THEN 8
    ELSE IF AtLeast(x, 250) THEN 4
    ELSE IF AtLeast(x, 125) THEN 2
    ELSE 1

\* the double nearest to the exact value x, ties to the even mantissa
RoundToDouble(x) ==
    LET u == Ulp(x)
        m == 1000 * 2 * u
        r == (x.ms * TwoTo56Mod(m) + x.off) % m
        low == r % (1000 * u)
        down == [ms |-> x.ms, off |-> x.off - low]
        up == [ms |-> x.ms, off |-> x.off + 1000 * u - low]
    IN IF low < 500 * u THEN down
       ELSE IF low > 500 * u THEN up
       ELSE IF r = low THEN down ELSE up

\* the double a decimal literal or a frame's delta of ms milliseconds is
Double(ms) == RoundToDouble([ms |-> ms, off |-> 0])

\* x + y in doubles
AddDouble(x, y) == RoundToDouble([ms |-> x.ms + y.ms, off |-> x.off + y.off])

\* ------------------------------------------------------------------------
\* IEEE doubles of decimal quantities, where the code adds, subtracts and
\* compares them (lerpVectors at a keyframe, the fades of the ethos
\* overlay).  With D units to 1.0, the record [n, off, p] stands for the
\* double n / D + off / (D * 2^p): n is the decimal it belongs to, in
\* units of 1 / D, and off what the double is away from it, in 1 / D of
\* 2^-p.  The double is a whole number of 2^-p.
\* ------------------------------------------------------------------------
SignificandBits == 52
ZeroDouble == [n |-> 0, off |-> 0, p |-> 0]

\* a * b modulo D for 0 <= a, b < D <= LIMB * LIMB, a taken in two limbs
MulMod(a, b, D) ==
    ((a \div LIMB) * ((LIMB * b) % D) + (a % LIMB) * b) % D

\* 2^k modulo D, fifteen factors of two at a time
RECURSIVE PowerMod(_, _)
PowerMod(k, D) ==
    IF k < 15 THEN (2 ^ k) % D
    ELSE MulMod((2 ^ 15) % D, PowerMod(k - 15, D), D)

Negative(x) == x.n < 0 \/ (x.n = 0 /\ x.off < 0)
Negate(x) == [n |-> 0 - x.n, off |-> 0 - x.off, p |-> x.p]

\* the value whose decimal part is m / bound has reached 1
ReachesBound(m, off, bound) == m > bound \/ (m = bound /\ off >= 0)

\* e with 2^e <= x < 2^(e + 1), for x > 0
RECURSIVE ExponentUp(_, _, _)
ExponentUp(x, e, D) ==
    IF ReachesBound(x.n, x.off, D * 2 ^ (e + 1))
    THEN ExponentUp(x, e + 1, D)
    ELSE e
RECURSIVE ExponentDown(_, _, _)
ExponentDown(x, e, D) ==
    IF ReachesBound(x.n * 2 ^ (0 - e), x.off, D) THEN e
    ELSE ExponentDown(x, e - 1, D)
Exponent(x, D) ==
    IF ReachesBound(x.n, x.off, D)
    THEN ExponentUp(x, 0, D)
    ELSE ExponentDown(x, 0 - 1, D)

\* the doubles around x > 0 are the whole numbers of 2^-UlpBits(x, D)
UlpBits(x, D) == SignificandBits - Exponent(x, D)

\* x >= 0 with x.p >= q >= 1, rounded to the nearest whole number of
\* 2^-q, a tie to the even one; half is (n * 2^(q - 1)) modulo D, and r
\* what x is above the even whole number below it, in 1 / D of 2^-x.p
RoundAt(x, q, D) ==
    LET scale == 2 ^ (x.p - q)
        unit == D * scale
        half == MulMod(x.n % D, PowerMod(q - 1, D), D)
        r == (2 * scale * half + x.off) % (2 * unit)
        low == r % unit
        down == x.off - low
        up == x.off + unit - low
        to == IF 2 * low < unit THEN down
              ELSE IF 2 * low > unit THEN up
              ELSE IF r = low THEN down ELSE up
    IN [n |-> x.n, off |-> to \div scale, p |-> q]

\* an exact sum or difference of doubles, rounded to the nearest double
RoundToNearest(x, D) ==
    LET positive(y) ==
            LET q == UlpBits(y, D)
            IN IF q >= y.p THEN y ELSE RoundAt(y, q, D)
    IN IF x.n = 0 THEN x
       ELSE IF Negative(x) THEN Negate(positive(Negate(x)))
       ELSE positive(x)

\* the double a decimal literal of n / D is
DecimalDouble(n, D) ==
    IF n = 0 THEN ZeroDouble
    ELSE LET size == [n |-> Abs(n), off |-> 0, p |-> 0]
             q == UlpBits(size, D)
             nearest == RoundAt([n |-> Abs(n), off |-> 0, p |-> q], q, D)
         IN IF n > 0 THEN nearest ELSE Negate(nearest)

\* x + y as a real number: both are whole numbers of 2^-p for the larger p
SumExact(x, y) ==
    LET p == Max(x.p, y.p)
        shifted(z) == IF z.off = 0 THEN 0 ELSE z.off * 2 ^ (p - z.p)
    IN [n |-> x.n + y.n, off |-> shifted(x) + shifted(y), p |-> p]

\* x + y and x - y in doubles
Plus(x, y, D) == RoundToNearest(SumExact(x, y), D)
Minus(x, y, D) == RoundToNearest(SumExact(x, Negate(y)), D)

\* x < y and x === y
Below(x, y) == Negative(SumExact(x, Negate(y)))
SameValue(x, y) ==
    LET d == SumExact(x, Negate(y)) IN d.n = 0 /\ d.off = 0

\* ------------------------------------------------------------------------
\* State
\* ------------------------------------------------------------------------
VARIABLES
    currentSection,   \* currentSectionRef.current, 0-based stop index
    wheelAccum,       \* onWheel closure: accumulated deltaY
    locked,           \* onWheel closure: cooldown lock
    timers,           \* number of pending setTimeout(unlock, 800) callbacks
    scroll,           \* scrollRef.current (Progress)
    prevScroll,       \* CameraController prevScroll.current
    velocity,         \* CameraController velocityRef.current
    cameraFov,        \* camera.fov, in 1/FOVSCALE of a degree
    prevCount,        \* EthosOverlay prevCountRef.current
    activeCount,      \* EthosOverlay activeCount (React state, as rendered)
    phase,            \* BioSection phaseRef.current
    phaseTimer,       \* BioSection timerRef.current, a double [ms, off]
    scanFired,        \* ProjectCard scanFiredRef.current, per card
    scanActive,       \* ProjectCard scanActive (React state, as rendered)
    scanProgress,     \* ScanReveal progressRef.current, in thousandths
    scanDone,         \* ScanReveal doneRef.current
    appeared,         \* ProjectCard appeared (React state, as rendered)
    lastEvent,        \* history: <<handler, input>> of the last stepper event
    pre,              \* history: the stepper's state before that event
    gesture,          \* history: the wheel gesture that holds the lock
    emitted,          \* history: the last ethos tick called setActiveCount
    inputs,           \* history: wheel events and clicks delivered so far
    frames,           \* history: frames rendered so far in which time passed
    sample,           \* argument handed to a function under test
    result            \* what the function returned for it

stepper == <<wheelAccum, locked, timers>>
\* what the frames, the ethos tick and the renders write
sequencer == <<scroll, prevScroll, velocity, cameraFov, prevCount, activeCount>>
reveal == <<scanFired, scanActive, scanProgress, scanDone, appeared>>
scene == <<phase, phaseTimer, reveal>>
\* the program's variables
page == <<currentSection, stepper, sequencer, scene>>
\* the histories and the function bench
hist == <<lastEvent, pre, gesture>>
budget == <<inputs, frames>>
bench == <<sample, result>>
rest == <<emitted, budget, bench>>
vars == <<page, hist, rest>>

StepperState ==
    [section |-> currentSection, accum |-> wheelAccum,
     locked |-> locked, timers |-> timers]

NoGesture == [from |-> 0, dir |-> 0, pulses |-> 0, moves |-> 0]
None == [none |-> TRUE]

AtMount ==
    /\ currentSection = 0
    /\ wheelAccum = 0
    /\ locked = FALSE
    /\ timers = 0
    /\ scroll = 0
    /\ prevScroll = 0
    /\ velocity = 0
    /\ cameraFov = INITIAL_FOV * FOVSCALE
    /\ prevCount = 0
    /\ activeCount = 0
    /\ phase = "idle"
    /\ phaseTimer = Double(0)
    /\ scanFired = [c \in 1..3 |-> FALSE]
    /\ scanActive = [c \in 1..3 |-> FALSE]
    /\ scanProgress = [c \in 1..3 |-> -(5 * MS) \div 2]
    /\ scanDone = [c \in 1..3 |-> FALSE]
    /\ appeared = [c \in 1..3 |-> FALSE]
    /\ lastEvent = <<"init", 0>>
    /\ pre = StepperState
    /\ gesture = NoGesture
    /\ emitted = FALSE
    /\ inputs = 0
    /\ frames = 0

Init ==
    /\ AtMount
    /\ sample = None
    /\ result = None

\* ------------------------------------------------------------------------
\* Portfolio: wheel handler (the snap stepper)
\* ------------------------------------------------------------------------
\* variant: strict comparison with the threshold
AdvanceTriggerStrict(accum) == accum > WHEEL_THRESHOLD
AdvanceTrigger(accum) == accum >= WHEEL_THRESHOLD
RetreatTrigger(accum) == accum <= -WHEEL_THRESHOLD
\* variants: the step is not clamped
NextStopUnclamped(i) == i + 1
PrevStopUnclamped(i) == i - 1
NextStop(i) == Min(i + 1, StopCount - 1)
PrevStop(i) == Max(i - 1, 0)

\* variant: the pulse is added to the accumulator before the lock is tested
OnWheelAccumFirst(deltaY) ==
    /\ UNCHANGED <<sequencer, scene>>
    /\ IF locked
       THEN /\ wheelAccum' = wheelAccum + deltaY
            /\ UNCHANGED <<currentSection, locked, timers>>
       ELSE LET accum == wheelAccum + deltaY IN
            IF accum >= WHEEL_THRESHOLD
            THEN /\ wheelAccum' = 0
                 /\ locked' = TRUE
                 /\ currentSection' = Min(currentSection + 1, StopCount - 1)
                 /\ timers' = timers + 1
            ELSE IF accum <= -WHEEL_THRESHOLD
            THEN /\ wheelAccum' = 0
                 /\ locked' = TRUE
                 /\ currentSection' = Max(currentSection - 1, 0)
                 /\ timers' = timers + 1
            ELSE /\ wheelAccum' = accum
                 /\ UNCHANGED <<currentSection, locked, timers>>

\* variant: the lock is set but never tested
OnWheelNoLock(deltaY) ==
    /\ UNCHANGED <<sequencer, scene>>
    /\ LET accum == wheelAccum + deltaY IN
       IF accum >= WHEEL_THRESHOLD
       THEN /\ wheelAccum' = 0
            /\ locked' = TRUE
            /\ currentSection' = Min(currentSection + 1, StopCount - 1)
            /\ timers' = timers + 1
       ELSE IF accum <= -WHEEL_THRESHOLD
       THEN /\ wheelAccum' = 0
            /\ locked' = TRUE
            /\ currentSection' = Max(currentSection - 1, 0)
            /\ timers' = timers + 1
       ELSE /\ wheelAccum' = accum
            /\ UNCHANGED <<currentSection, locked, timers>>

\* variant: a trigger also writes the new stop's progress into scrollRef
OnWheelSnap(deltaY) ==
    /\ UNCHANGED <<prevScroll, velocity, cameraFov, prevCount, activeCount>>
    /\ UNCHANGED scene
    /\ IF locked
       THEN UNCHANGED <<currentSection, wheelAccum, locked, timers, scroll>>
       ELSE LET accum == wheelAccum + deltaY IN
            IF accum >= WHEEL_THRESHOLD
            THEN /\ wheelAccum' = 0
                 /\ locked' = TRUE
                 /\ currentSection' = Min(currentSection + 1, StopCount - 1)
                 /\ scroll' = StopProgress(currentSection')
                 /\ timers' = timers + 1
            ELSE IF accum <= -WHEEL_THRESHOLD
            THEN /\ wheelAccum' = 0
                 /\ locked' = TRUE
                 /\ currentSection' = Max(currentSection - 1, 0)
                 /\ scroll' = StopProgress(currentSection')
                 /\ timers' = timers + 1
            ELSE /\ wheelAccum' = accum
                 /\ UNCHANGED <<currentSection, locked, timers, scroll>>

\* variant: a trigger that cannot move the index empties the accumulator
\* and does nothing else
OnWheelBoundaryNoOp(deltaY) ==
    /\ UNCHANGED <<sequencer, scene>>
    /\ IF locked
       THEN UNCHANGED <<currentSection, wheelAccum, locked, timers>>
       ELSE LET accum == wheelAccum + deltaY IN
            IF AdvanceTrigger(accum) /\ NextStop(currentSection) # currentSection
            THEN /\ wheelAccum' = 0
                 /\ locked' = TRUE
                 /\ currentSection' = NextStop(currentSection)
                 /\ timers' = timers + 1
            ELSE IF RetreatTrigger(accum)
                    /\ PrevStop(currentSection) # currentSection
            THEN /\ wheelAccum' = 0
                 /\ locked' = TRUE
                 /\ currentSection' = PrevStop(currentSection)
                 /\ timers' = timers + 1
            ELSE IF AdvanceTrigger(accum) \/ RetreatTrigger(accum)
            THEN /\ wheelAccum' = 0
                 /\ UNCHANGED <<currentSection, locked, timers>>
            ELSE /\ wheelAccum' = accum
                 /\ UNCHANGED <<currentSection, locked, timers>>

\* variant: a trigger does not empty the accumulator
OnWheelKeepsAccum(deltaY) ==
    /\ UNCHANGED <<sequencer, scene>>
    /\ IF locked
       THEN UNCHANGED <<currentSection, wheelAccum, locked, timers>>
       ELSE LET accum == wheelAccum + deltaY IN
            IF AdvanceTrigger(accum)
            THEN /\ wheelAccum' = accum
                 /\ locked' = TRUE
                 /\ currentSection' = NextStop(currentSection)
                 /\ timers' = timers + 1
            ELSE IF RetreatTrigger(accum)
            THEN /\ wheelAccum' = accum
                 /\ locked' = TRUE
                 /\ currentSection' = PrevStop(currentSection)
                 /\ timers' = timers + 1
            ELSE /\ wheelAccum' = accum
                 /\ UNCHANGED <<currentSection, locked, timers>>

OnWheel(deltaY) ==
    /\ UNCHANGED <<sequencer, scene>>
    /\ IF locked
       THEN UNCHANGED <<currentSection, wheelAccum, locked, timers>>
       ELSE LET accum == wheelAccum + deltaY IN
            IF AdvanceTrigger(accum)
            THEN /\ wheelAccum' = 0
                 /\ locked' = TRUE
                 /\ currentSection' = NextStop(currentSection)
                 /\ timers' = timers + 1
            ELSE IF RetreatTrigger(accum)
            THEN /\ wheelAccum' = 0
                 /\ locked' = TRUE
                 /\ currentSection' = PrevStop(currentSection)
                 /\ timers' = timers + 1
            ELSE /\ wheelAccum' = accum
                 /\ UNCHANGED <<currentSection, locked, timers>>

\* variant: the callback runs but leaves the lock set
TimerExpireKeepsLock ==
    /\ timers > 0
    /\ timers' = timers - 1
    /\ UNCHANGED <<currentSection, wheelAccum, locked>>
    /\ UNCHANGED <<sequencer, scene>>

\* the setTimeout callback: () => { locked = false }, due 800 ms after the
\* trigger; when it runs relative to the frames is left open
TimerExpire ==
    /\ timers > 0
    /\ timers' = timers - 1
    /\ locked' = FALSE
    /\ UNCHANGED <<currentSection, wheelAccum>>
    /\ UNCHANGED <<sequencer, scene>>

\* ------------------------------------------------------------------------
\* ScrollBar: marker click (jumpToStop)
\* ------------------------------------------------------------------------
\* variant: the click also moves Progress to the marker's stop
MarkerClickTeleport(i) ==
    /\ currentSection' = i
    /\ scroll' = StopProgress(i)
    /\ UNCHANGED stepper
    /\ UNCHANGED <<prevScroll, velocity, cameraFov, prevCount, activeCount>>
    /\ UNCHANGED scene

\* variant: a click during the cooldown is ignored
MarkerClickGated(i) ==
    /\ currentSection' = IF locked THEN currentSection ELSE i
    /\ UNCHANGED stepper
    /\ UNCHANGED <<sequencer, scene>>

\* variant: a click also releases the lock
MarkerClickUnlocks(i) ==
    /\ currentSection' = i
    /\ locked' = FALSE
    /\ UNCHANGED <<wheelAccum, timers>>
    /\ UNCHANGED <<sequencer, scene>>

MarkerClick(i) ==
    /\ currentSection' = i
    /\ UNCHANGED stepper
    /\ UNCHANGED <<sequencer, scene>>

\* ------------------------------------------------------------------------
\* ScrollSmoother and the velocity estimate of CameraController
\* ------------------------------------------------------------------------
\* variant: the target is the first stop whatever the index
ScrollSmootherFirstStop(s, i, delta) ==
    dampValue(s, StopProgress(0), SCROLL_SMOOTHING, delta)

\* scrollRef.current = dampValue(scrollRef.current, SECTION_STOPS[index], 3,
\* delta)
ScrollSmoother(s, i, delta) ==
    dampValue(s, StopProgress(i), SCROLL_SMOOTHING, delta)

\* Math.max(delta, 0.001), in ms
VelocityDenominator(delta) == Max(delta, 1)

\* rawVelocity * 40 with rawVelocity = |t - prev| / max(delta, 0.001), for
\* a difference below the one that gives 1.0
VelocityGained(diff, den) ==
    (diff \div den) * (VELOCITY_GAIN * MS)
        + ((diff % den) * (VELOCITY_GAIN * MS)) \div den

\* the difference |t - prev| from which rawVelocity * 40 is at least 1.0
VelocityFull(den) == (FINE \div (VELOCITY_GAIN * MS)) * den

\* variant: rawVelocity * 40 without the clamp, counted up to 2.0
VelocityTargetUnclamped(t, prev, delta) ==
    LET den == VelocityDenominator(delta) IN
    IF Abs(t - prev) >= 2 * VelocityFull(den) THEN 2 * FINE
    ELSE 2 * VelocityGained(Abs(t - prev) \div 2, den)

\* clamp(rawVelocity * 40, 0, 1)
VelocityTarget(t, prev, delta) ==
    LET den == VelocityDenominator(delta) IN
    IF Abs(t - prev) >= VelocityFull(den) THEN FINE
    ELSE clamp(VelocityGained(Abs(t - prev), den), 0, FINE)

\* variant: the estimate never falls
VelocityEstimateHoldsPeak(v, t, prev, delta) ==
    Max(v, dampValue(v, VelocityTarget(t, prev, delta), VELOCITY_SMOOTHING,
                     delta))

\* velocityRef.current = dampValue(velocityRef.current, clamp(..), 14, delta)
VelocityEstimate(v, t, prev, delta) ==
    dampValue(v, VelocityTarget(t, prev, delta), VELOCITY_SMOOTHING, delta)

\* ------------------------------------------------------------------------
\* CameraController: the keyframe pair for a progress t and the pose
\* interpolated on it.  Indices are 0-based as in the source.
\* ------------------------------------------------------------------------
keyframe(i) == CAMERA_PATH[i + 1]
\* CAMERA_PATH[i].t at nine decimals
keyframeT(i) == keyframe(i).t * Hundredth

\* variant: without the check against the last keyframe after the loop
startIndexLoopOnly(t) ==
    LET hits == {i \in 0..(PathLength - 2) :
                    t >= keyframeT(i) /\ t <= keyframeT(i + 1)}
    IN IF hits = {} THEN 0 ELSE CHOOSE i \in hits : \A j \in hits : i <= j

\* the loop breaks at the first pair that holds t; startIndex stays 0 when
\* none does; a t at or past the last keyframe takes the last pair
startIndex(t) ==
    LET hits == {i \in 0..(PathLength - 2) :
                    t >= keyframeT(i) /\ t <= keyframeT(i + 1)}
    IN IF t >= keyframeT(PathLength - 1) THEN PathLength - 2
       ELSE IF hits = {} THEN 0
       ELSE CHOOSE i \in hits : \A j \in hits : i <= j

\* end.t > start.t ? (t - start.t) / (end.t - start.t) : 1, as an exact
\* fraction [num, den] with den > 0 a number of hundredths
localT(t, i) ==
    IF keyframe(i + 1).t > keyframe(i).t
    THEN [num |-> t - keyframeT(i), den |-> keyframeT(i + 1) - keyframeT(i)]
    ELSE [num |-> Hundredth, den |-> Hundredth]

\* clamp(x, 0, 1) of a fraction
clampUnit(x) ==
    [num |-> clamp(x.num, 0, x.den), den |-> x.den]

\* a fraction between 0 and 1 at nine decimals
Fixed(x) ==
    LET d == x.den \div Hundredth IN
    (x.num \div d) * SCALE + ((x.num % d) * SCALE + d \div 2) \div d

\* variant: x * x * (3 - x)
smoothstepSlip(x) ==
    LET xx == MulFine(x, x) IN xx + (xx - MulFine(xx, x)) + xx

\* x * x * (3 - 2 * x)
smoothstep(x) ==
    LET xx == MulFine(x, x) IN xx + 2 * (xx - MulFine(xx, x))

\* clamp(localT, 0, 1) at nine decimals
clampedT(t, i) == Fixed(clampUnit(localT(t, i)))

\* const easeT = smoothstep(clamp(localT, 0, 1))
easeT(t, i) == smoothstep(clampedT(t, i))

\* a pos, look component of the path, written in tenths, as the double it
\* is; PoseUnits units of pos and look to 1.0
PoseUnits == 10 * POSE
PoseDouble(tenths) == DecimalDouble(tenths * POSE, PoseUnits)

\* Vector3.lerpVectors(v1, v2, alpha) = v1 + (v2 - v1) * alpha in doubles.
\* With alpha 1 that is v1 + (v2 - v1), two rounded operations, and with
\* alpha 0 it is v1 + 0; for an alpha in between the sum is kept at the
\* resolution of 1 / PoseUnits, as the double nearest to it.
lerpVectors(a, b, e) ==
    [k \in 1..3 |->
        LET v1 == PoseDouble(a[k])
            v2 == PoseDouble(b[k])
        IN IF e = FINE THEN Plus(v1, Minus(v2, v1, PoseUnits), PoseUnits)
           ELSE IF e = 0 THEN Plus(v1, ZeroDouble, PoseUnits)
           ELSE DecimalDouble(a[k] * POSE + MulSigned((b[k] - a[k]) * POSE, e),
                              PoseUnits)]

\* const baseFov = THREE.MathUtils.lerp(start.fov, end.fov, easeT), in
\* 1/FOVSCALE
baseFov(i, e) ==
    lerpFine(keyframe(i).fov * FOVSCALE, keyframe(i + 1).fov * FOVSCALE, e)

\* _targetPos, _targetLook, baseFov and pathRoll (in degrees) on the pair
\* that starts at keyframe i: pos and look as doubles, roll in 1/POSE of a
\* tenth, baseFov in 1/FOVSCALE
SegmentTarget(i, t) ==
    LET start == keyframe(i)
        end == keyframe(i + 1)
        e == easeT(t, i)
    IN [startIndex |-> i,
        easeT |-> e,
        pos |-> lerpVectors(start.pos, end.pos, e),
        look |-> lerpVectors(start.look, end.look, e),
        baseFov |-> baseFov(i, e),
        pathRoll |-> lerpFine(start.roll * POSE, end.roll * POSE, e)]

CameraTarget(t) == SegmentTarget(startIndex(t), t)

\* what a keyframe itself says, in the units of SegmentTarget
KeyframePose(k) ==
    [pos |-> [c \in 1..3 |-> PoseDouble(k.pos[c])],
     look |-> [c \in 1..3 |-> PoseDouble(k.look[c])],
     baseFov |-> k.fov * FOVSCALE,
     pathRoll |-> k.roll * POSE]

\* velocityRef.current * 12 in 1/FOVSCALE
FovKick(v) ==
    (v \div SCALE) * FOV_KICK + ((v % SCALE) * FOV_KICK) \div SCALE

\* variant: the velocity kick is subtracted
TargetFovKickDown(base, v) == base - FovKick(v)

\* targetFov = baseFov + velocityRef.current * 12, in 1/FOVSCALE
TargetFov(base, v) == base + FovKick(v)

\* ------------------------------------------------------------------------
\* CameraController's useFrame callback, run after ScrollSmoother has
\* written the frame's progress: it reads scrollRef (scroll'), updates the
\* velocity estimate and prevScroll, and damps camera.fov towards the
\* target.  Its constants are bound in source order.
\* ------------------------------------------------------------------------
CameraController(delta) ==
    /\ velocity' = VelocityEstimate(velocity, scroll', prevScroll, delta)
    /\ prevScroll' = scroll'
    /\ \E i \in {startIndex(scroll')} :
       \E c \in {clampedT(scroll', i)} :
       \E e \in {smoothstep(c)} :
       \E targetFov \in {TargetFov(baseFov(i, e), velocity')} :
           cameraFov' = dampValue(cameraFov, targetFov, FOV_SMOOTHING, delta)

\* ------------------------------------------------------------------------
\* EthosOverlay: requestAnimationFrame tick
\* ------------------------------------------------------------------------
\* the section's length and a progress measured from `from`, clamped to it:
\* clamp((t - from) / (ETHOS_EXIT - ETHOS_ENTER), 0, 1) as an exact fraction
EthosLength == (ETHOS_EXIT - ETHOS_ENTER) * Hundredth
EthosProgress(t, from) ==
    [num |-> clamp(t - from, 0, EthosLength), den |-> EthosLength]

\* where the exact fraction equals a threshold the double quotient decides:
\* (0.0992 - 0.08) / (0.24 - 0.08) is 0.11999999999999998, below 0.12, while
\* (0.1568 - 0.08) / (0.24 - 0.08) is 0.48000000000000004 and
\* (0.208 - 0.08) / (0.24 - 0.08) is 0.8000000000000002
QuotientFallsShort == <<TRUE, FALSE, FALSE>>

\* the numerator at which the exact fraction equals THRESHOLDS[k]
ThresholdNum(p, k) == THRESHOLDS[k] * (p.den \div SCALE)

\* progress >= th
Reaches(p, k) ==
    \/ p.num > ThresholdNum(p, k)
    \/ p.num = ThresholdNum(p, k) /\ ~QuotientFallsShort[k]

\* variant: progress > th
EthosCountStrict(t) ==
    LET p == EthosProgress(t, ETHOS_ENTER * Hundredth) IN
    Cardinality({k \in 1..Len(THRESHOLDS) : p.num > ThresholdNum(p, k)})

\* variant: local progress measured from 0 instead of ETHOS_ENTER
EthosCountFromZero(t) ==
    LET p == EthosProgress(t, 0) IN
    Cardinality({k \in 1..Len(THRESHOLDS) : Reaches(p, k)})

\* THRESHOLDS.filter(th => progress >= th).length
EthosCount(t) ==
    LET p == EthosProgress(t, ETHOS_ENTER * Hundredth) IN
    Cardinality({k \in 1..Len(THRESHOLDS) : Reaches(p, k)})

\* the progress t, a whole number of 1 / GRID, and the literals
\* ETHOS_ENTER, ETHOS_EXIT and 0.025 as the doubles they are
GridDouble(t) == DecimalDouble(t \div (FINE \div GRID), GRID)
EnterDouble == DecimalDouble(ETHOS_ENTER * SCALE, GRID)
ExitDouble == DecimalDouble(ETHOS_EXIT * SCALE, GRID)
FadeBand == DecimalDouble(FADE_BAND * (GRID \div LIMB), GRID)

\* Math.min(1, Math.max(0, x / 0.025)) for a double x, as the pair of
\* doubles [num, den] whose quotient it is.  The division rounds to the
\* nearest double and keeps the order, so the quotient is 0 or less exactly
\* when x is, and 1 or more exactly when x is at least the divisor.
Fade(x) ==
    [num |-> IF ~Below(ZeroDouble, x) THEN ZeroDouble
             ELSE IF Below(x, FadeBand) THEN x
             ELSE FadeBand,
     den |-> FadeBand]

\* variant: the fade-in alone
EthosOpacityFadeInOnly(t) ==
    Fade(Minus(GridDouble(t), EnterDouble, GRID))

\* Math.min(fadeIn, fadeOut), with
\* fadeIn = Math.min(1, Math.max(0, (t - ETHOS_ENTER) / 0.025)) and
\* fadeOut = Math.min(1, Math.max(0, (ETHOS_EXIT - t) / 0.025))
EthosOpacity(t) ==
    LET fadeIn == Fade(Minus(GridDouble(t), EnterDouble, GRID))
        fadeOut == Fade(Minus(ExitDouble, GridDouble(t), GRID))
    IN IF Below(fadeOut.num, fadeIn.num) THEN fadeOut ELSE fadeIn

\* active={i < activeCount} over ETHOS_CHECKPOINTS, 0-based
ActiveCheckpoints(count) == {i \in 0..(Len(THRESHOLDS) - 1) : i < count}

\* newCount !== prevCountRef.current
EthosEmits == EthosCount(scroll) # prevCount

\* variant: the tick compares the counts but does not record the new one
EthosTickStaleRef ==
    /\ UNCHANGED <<currentSection, stepper, sequencer, scene>>

\* the tick records the new count in prevCountRef and requests it with
\* setActiveCount; activeCount itself changes when React renders
EthosTick ==
    /\ prevCount' = IF EthosEmits THEN EthosCount(scroll) ELSE prevCount
    /\ UNCHANGED <<scroll, prevScroll, velocity, cameraFov, activeCount>>
    /\ UNCHANGED <<currentSection, stepper, scene>>

\* React renders EthosOverlay with the count of the last setActiveCount,
\* which is the count prevCountRef holds
EthosRender ==
    /\ activeCount # prevCount
    /\ activeCount' = prevCount
    /\ UNCHANGED <<scroll, prevScroll, velocity, cameraFov, prevCount>>
    /\ UNCHANGED <<currentSection, stepper, scene>>

\* ------------------------------------------------------------------------
\* Bio overlay (DOM): a requestAnimationFrame loop writes the wrapper's
\* opacity from the progress and shows the panel from BIO_ENTER on
\* ------------------------------------------------------------------------
BIO_ENTER == 86                   \* hundredths of progress
BIO_FULL == 93
BIO_FADE == 5

\* Math.max(0, Math.min(1, (t - BIO_FULL) / 0.05)), as an exact fraction
BioOpacity(t) ==
    [num |-> clamp(t - BIO_FULL * Hundredth, 0, BIO_FADE * Hundredth),
     den |-> BIO_FADE * Hundredth]

\* setVisible(t >= BIO_ENTER)
BioVisible(t) == t >= BIO_ENTER * Hundredth

\* ------------------------------------------------------------------------
\* BioSection: the phase machine of the bio reveal, stepped by its
\* useFrame callback after ScrollSmoother has written the frame's progress
\* ------------------------------------------------------------------------
BIO_LEAVE == BIO_ENTER - 4        \* BIO_ENTER - 0.04, hundredths
DEBRIS_TIME == 1400
COLLAPSE_TIME == 400
APPEARED_TIME == 600
MaxPhaseTimer == 2000
Phases == <<"idle", "debris", "collapse", "appeared", "afterglow">>

\* the literals 1.4, 0.4 and 0.6 the timer is compared with, as doubles
DebrisTime == Double(DEBRIS_TIME)
CollapseTime == Double(COLLAPSE_TIME)
AppearedTime == Double(APPEARED_TIME)

\* one of the four sequential if statements: [phase, timer] after it
PhaseIf(state, from, to, fires, reset) ==
    IF state.phase = from /\ fires
    THEN [phase |-> to, timer |-> IF reset THEN Double(0) ELSE state.timer]
    ELSE state

\* variant: the transitions do not restart the timer
BioPhasesKeepTimer(t, state) ==
    LET a == PhaseIf(state, "idle", "debris", BioVisible(t), FALSE)
        b == PhaseIf(a, "debris", "collapse",
                     Greater(a.timer, DebrisTime), FALSE)
        c == PhaseIf(b, "collapse", "appeared",
                     Greater(b.timer, CollapseTime), FALSE)
    IN PhaseIf(c, "appeared", "afterglow",
               Greater(c.timer, AppearedTime), FALSE)

\* the four if statements in source order, each reading what the one
\* before it wrote
BioPhases(t, state) ==
    LET a == PhaseIf(state, "idle", "debris", BioVisible(t), TRUE)
        b == PhaseIf(a, "debris", "collapse",
                     Greater(a.timer, DebrisTime), TRUE)
        c == PhaseIf(b, "collapse", "appeared",
                     Greater(b.timer, CollapseTime), TRUE)
    IN PhaseIf(c, "appeared", "afterglow",
               Greater(c.timer, AppearedTime), FALSE)

\* timerRef.current += delta; a timer of MaxPhaseTimer or more, past every
\* duration it is compared with, is kept as MaxPhaseTimer
TimerAdvance(timer, delta) ==
    LET sum == AddDouble(timer, delta)
    IN IF sum.ms >= MaxPhaseTimer THEN Double(MaxPhaseTimer) ELSE sum

\* the useFrame callback for progress t
BioSectionFrame(t, delta) ==
    IF t < BIO_LEAVE * Hundredth
    THEN IF phase # "idle"
         THEN phase' = "idle" /\ phaseTimer' = Double(0)
         ELSE UNCHANGED <<phase, phaseTimer>>
    ELSE \E d \in {Double(delta)} :
         \E timer \in {TimerAdvance(phaseTimer, d)} :
         \E after \in {BioPhases(t, [phase |-> phase, timer |-> timer])} :
            /\ phase' = after.phase
            /\ phaseTimer' = after.timer

\* ------------------------------------------------------------------------
\* ProjectCard and its ScanReveal, for each card of PROJECT_CARDS.  The
\* card's useFrame fires the scan once; the scan line runs while the card
\* is rendered with scanActive and reports its end once; React renders the
\* two state updates some time after the frame that requested them.
\* ------------------------------------------------------------------------
PROJECT_CARDS == <<[appear |-> 44], [appear |-> 62], [appear |-> 80]>>
Cards == 1..Len(PROJECT_CARDS)
SCAN_LEAD == 15                   \* thousandths of progress
SCAN_RATE == 45                   \* tenths per second
SCAN_END == 2800                  \* thousandths

\* t >= config.appear - 0.015
ScanDue(config, t) ==
    t >= config.appear * Hundredth - SCAN_LEAD * Thousandth

\* variant: the scan follows the progress instead of latching
ProjectCardFrameLevel(t) ==
    scanFired' = [c \in Cards |-> ScanDue(PROJECT_CARDS[c], t)]

\* the cards' useFrame: setScanActive(true) is requested with the ref
ProjectCardFrame(t) ==
    scanFired' = [c \in Cards |->
                    scanFired[c] \/ ScanDue(PROJECT_CARDS[c], t)]

\* the scan lines' useFrame; progressRef += delta * 4.5, delta in ms
ScanRevealFrame(delta) ==
    LET runs(c) == ~scanDone[c] /\ scanActive[c]
        p(c) == scanProgress[c] + (delta * SCAN_RATE) \div 10
    IN /\ scanProgress' = [c \in Cards |->
                             IF runs(c) THEN p(c) ELSE scanProgress[c]]
       /\ scanDone' = [c \in Cards |->
                         IF runs(c) THEN p(c) > SCAN_END ELSE scanDone[c]]

\* React renders the cards with the state requested by setScanActive(true)
\* and by onComplete's setAppeared(true)
CardRender ==
    /\ scanActive # scanFired \/ appeared # scanDone
    /\ scanActive' = scanFired
    /\ appeared' = scanDone
    /\ UNCHANGED <<scanFired, scanProgress, scanDone, phase, phaseTimer>>
    /\ UNCHANGED <<currentSection, stepper, sequencer>>

\* ------------------------------------------------------------------------
\* One rendered frame runs the useFrame callbacks in mount order:
\* ScrollSmoother, CameraController, the scan lines and the cards of
\* ProjectsSection, BioSection.  Of CameraController's writes the state
\* keeps prevScroll, the velocity estimate and camera.fov.
\* ------------------------------------------------------------------------
Frame(delta) ==
    /\ scroll' = ScrollSmoother(scroll, currentSection, delta)
    /\ CameraController(delta)
    /\ ScanRevealFrame(delta)
    /\ ProjectCardFrame(scroll')
    /\ BioSectionFrame(scroll', delta)
    /\ UNCHANGED <<currentSection, stepper, prevCount, activeCount>>
    /\ UNCHANGED <<scanActive, appeared>>

\* ------------------------------------------------------------------------
\* Specification of the whole page: input events, the timer, rendered
\* frames, the ethos tick and React's renders, for up to MaxEvents input
\* events and frames in which time passes, taken together.
\* ------------------------------------------------------------------------
Stops == 0..(StopCount - 1)
MaxEvents == 5

\* one more input event is delivered, of at most max events
Delivered(max) ==
    /\ inputs + frames < max
    /\ inputs' = inputs + 1
    /\ frames' = frames

\* one more frame is rendered; a frame in which time passes is an event
Rendered(delta, max) ==
    IF delta = 0 THEN UNCHANGED budget
    ELSE /\ inputs + frames < max
         /\ frames' = frames + 1
         /\ inputs' = inputs

ClickWithin(max) ==
    \E i \in Stops :
        Delivered(max) /\ MarkerClick(i) /\ UNCHANGED <<hist, emitted, bench>>

FrameWithin(max) ==
    \E delta \in Deltas :
        Rendered(delta, max) /\ Frame(delta)
                             /\ UNCHANGED <<hist, emitted, bench>>

Next ==
    \/ \E deltaY \in Pulses :
          Delivered(MaxEvents) /\ OnWheel(deltaY)
                               /\ UNCHANGED <<hist, emitted, bench>>
    \/ TimerExpire /\ UNCHANGED <<hist, rest>>
    \/ ClickWithin(MaxEvents)
    \/ FrameWithin(MaxEvents)
    \/ EthosTick /\ UNCHANGED <<hist, rest>>
    \/ EthosRender /\ UNCHANGED <<hist, rest>>
    \/ CardRender /\ UNCHANGED <<hist, rest>>

Spec == Init /\ [][Next]_vars

\* ------------------------------------------------------------------------
\* Specification of the timeline coming to rest: up to MaxClicks marker
\* clicks, and frames without end; the frames after a stall are not
\* counted, the shorter ones are at most MaxShortFrames.
\* ------------------------------------------------------------------------
MaxClicks == 2
MaxShortFrames == 1

SettleClick(i) ==
    /\ inputs < MaxClicks
    /\ inputs' = inputs + 1
    /\ frames' = frames
    /\ MarkerClick(i)
    /\ UNCHANGED <<hist, emitted, bench>>

SettleFrame(delta) ==
    /\ IF delta = 0 \/ delta >= MS THEN UNCHANGED budget
       ELSE /\ frames < MaxShortFrames
            /\ frames' = frames + 1
            /\ inputs' = inputs
    /\ Frame(delta)
    /\ UNCHANGED <<hist, emitted, bench>>

\* the renderer keeps delivering frames in which time has passed
PositiveFrame == \E delta \in Deltas \ {0} : SettleFrame(delta)

SettleNext ==
    \/ \E i \in Stops : SettleClick(i)
    \/ \E delta \in Deltas : SettleFrame(delta)

SettleSpec == Init /\ [][SettleNext]_vars /\ WF_vars(PositiveFrame)

\* ------------------------------------------------------------------------
\* Specification of the snap stepper alone, with its history recorded.  The
\* frame callbacks leave the stepper's variables alone, so they are left out.
\* ------------------------------------------------------------------------
Sign(a) == IF a > 0 THEN 1 ELSE IF a < 0 THEN -1 ELSE 0

\* the history is written from what the event did, not from how it did it
Observe(kind, input) ==
    /\ lastEvent' = <<kind, input>>
    /\ pre' = StepperState
    /\ gesture' =
         IF kind = "timer" THEN NoGesture
         ELSE IF kind # "wheel" THEN gesture
         ELSE IF locked
              THEN [gesture EXCEPT
                      !.pulses = Min(@ + 1, MaxBurst),
                      !.moves = @ + (IF currentSection' # currentSection
                                     THEN 1 ELSE 0)]
         ELSE IF locked'
              THEN [from |-> currentSection,
                    dir |-> Sign(wheelAccum + input),
                    pulses |-> 0,
                    moves |-> IF currentSection' # currentSection
                              THEN 1 ELSE 0]
         ELSE gesture

WheelEvent(deltaY) ==
    OnWheel(deltaY) /\ Observe("wheel", deltaY) /\ UNCHANGED rest
TimerEvent == TimerExpire /\ Observe("timer", 0) /\ UNCHANGED rest
ClickEvent(i) == MarkerClick(i) /\ Observe("click", i) /\ UNCHANGED rest

StepperNext ==
    \/ \E deltaY \in Pulses : WheelEvent(deltaY)
    \/ TimerEvent
    \/ \E i \in Stops : ClickEvent(i)

StepperSpec == Init /\ [][StepperNext]_vars

\* the browser runs every pending timeout callback
StepperFairSpec == StepperSpec /\ WF_vars(TimerEvent)

\* ------------------------------------------------------------------------
\* Specification of the damping function alone: one interval of `total`
\* microseconds is consumed in steps of any of the lengths in PartLengths,
\* each step one call of dampFine on the value the previous call returned.
\* ------------------------------------------------------------------------
\* step lengths in units of total / MaxParts: an empty step, the smallest
\* step, uneven steps, the whole interval
PartLengths == {0, 1, 90, MaxParts \div 2, MaxParts}
\* microseconds of the smallest step
Quanta == {100, 1000}
DampLevels == {0, FINE}

DampSamples ==
    {[current |-> c, target |-> t, smoothing |-> l, total |-> q * MaxParts] :
        c \in DampLevels, t \in DampLevels, l \in Smoothings, q \in Quanta}

DampInit ==
    /\ AtMount
    /\ sample \in DampSamples
    /\ result = [left |-> sample.total, value |-> sample.current]

DampStep(n) ==
    LET delta == n * (sample.total \div MaxParts) IN
    /\ delta <= result.left
    /\ result' = [left |-> result.left - delta,
                  value |-> dampFine(result.value, sample.target,
                                     sample.smoothing, delta)]
    /\ UNCHANGED <<page, hist, emitted, budget, sample>>

DampNext == \E n \in PartLengths : DampStep(n)

DampSpec == DampInit /\ [][DampNext]_vars

\* ------------------------------------------------------------------------
\* Specification of the keyframe lookup alone: a progress value, a whole
\* number of hundredths inside the path or up to ProgressMargin beyond
\* either end, is located once.
\* ------------------------------------------------------------------------
ProgressMargin == 5
Progresses ==
    {h * Hundredth : h \in (0 - ProgressMargin)..(SCALE + ProgressMargin)}

KeyframeInit ==
    /\ AtMount
    /\ sample \in Progresses
    /\ result = None

Locate ==
    /\ result = None
    /\ result' = CameraTarget(sample)
    /\ UNCHANGED <<page, hist, emitted, budget, sample>>

KeyframeSpec == KeyframeInit /\ [][Locate]_vars

\* ------------------------------------------------------------------------
\* Specification of the ethos overlay's functions of progress alone: a
\* progress value on the grid of 1/GRID is evaluated once.
\* ------------------------------------------------------------------------
GridStep == FINE \div GRID
GridProgresses ==
    {g * GridStep :
        g \in (0 - ProgressMargin * SCALE)..(GRID + ProgressMargin * SCALE)}

OverlayInit ==
    /\ AtMount
    /\ sample \in GridProgresses
    /\ result = None

EthosEvaluate ==
    /\ result = None
    /\ result' = [opacity |-> EthosOpacity(sample),
                  count |-> EthosCount(sample),
                  active |-> ActiveCheckpoints(EthosCount(sample))]
    /\ UNCHANGED <<page, hist, emitted, budget, sample>>

OverlaySpec == OverlayInit /\ [][EthosEvaluate]_vars

\* ------------------------------------------------------------------------
\* Specification of the ethos checkpoint counter: marker clicks and frames
\* move Progress, every ethos tick records whether it called
\* setActiveCount, and React renders the count; the clicks and the frames
\* in which time passes are at most MaxWalk together.
\* ------------------------------------------------------------------------
MaxWalk == 6

EthosFrame ==
    /\ EthosTick
    /\ emitted' = EthosEmits
    /\ UNCHANGED <<hist, budget, bench>>

EthosNext ==
    \/ ClickWithin(MaxWalk)
    \/ FrameWithin(MaxWalk)
    \/ EthosFrame
    \/ EthosRender /\ UNCHANGED <<hist, rest>>

EthosSpec == Init /\ [][EthosNext]_vars

\* ------------------------------------------------------------------------
\* Specification of the velocity estimate alone: Progress stands still at
\* `progress` while frames run, from an estimate of `velocity`; the time
\* the frames add up to is counted to one second.
\* ------------------------------------------------------------------------
VelocityLevels == {0, Hundredth, FINE \div 2, FINE}

VelocitySamples ==
    {[velocity |-> v, progress |-> StopProgress(i)] :
        v \in VelocityLevels, i \in Stops}

VelocityInit ==
    /\ AtMount
    /\ sample \in VelocitySamples
    /\ result = [velocity |-> sample.velocity, ms |-> 0]

IdleFrame(delta) ==
    /\ result' = [velocity |-> VelocityEstimate(result.velocity,
                                                sample.progress,
                                                sample.progress, delta),
                  ms |-> Min(result.ms + delta, MS)]
    /\ UNCHANGED <<page, hist, emitted, budget, sample>>

VelocityNext == \E delta \in Deltas : IdleFrame(delta)

VelocitySpec == VelocityInit /\ [][VelocityNext]_vars

\* ------------------------------------------------------------------------
\* Specification of the camera's field of view after one jump: the page is
\* mounted, one marker is clicked, and up to MaxJumpFrames frames run.
\* ------------------------------------------------------------------------
MaxJumpFrames == 8

Jump(i) == lastEvent[1] = "init" /\ ClickEvent(i)

JumpNext ==
    \/ \E i \in Stops : Jump(i)
    \/ FrameWithin(MaxJumpFrames)

JumpSpec == Init /\ [][JumpNext]_vars

\* ------------------------------------------------------------------------
\* Specification of the start-up with a configuration under test: the
\* stops and the first and last keyframe progress stand where
\* SECTION_STOPS and CAMERA_PATH stand in the source, Portfolio mounts, and
\* marker clicks and ScrollSmoother frames run on those stops.
\* ------------------------------------------------------------------------
ConfigLevels == {0, SCALE \div 2, SCALE}
PathFirsts == {0, SCALE \div 10}
PathLasts == {SCALE - SCALE \div 10, SCALE}

Configs ==
    {[stops |-> <<a, b, c>>, first |-> f, last |-> l] :
        a \in ConfigLevels, b \in ConfigLevels, c \in ConfigLevels,
        f \in PathFirsts, l \in PathLasts}

ConfigInit ==
    /\ AtMount
    /\ sample \in Configs
    /\ result = None

\* Portfolio(): the refs are created and the handlers installed; nothing
\* looks at the configuration
Mount ==
    /\ result = None
    /\ result' = [index |-> 0, progress |-> 0, ticks |-> 0]
    /\ UNCHANGED <<page, hist, emitted, budget, sample>>

\* marker onClick on the mounted page
ConfiguredClick(i) ==
    /\ result # None
    /\ result' = [result EXCEPT !.index = i]
    /\ UNCHANGED <<page, hist, emitted, budget, sample>>

\* ScrollSmoother useFrame on the mounted page
ConfiguredTick(delta) ==
    /\ result # None
    /\ result.ticks < MaxTicks
    /\ result' = [result EXCEPT
                    !.progress = dampValue(@, sample.stops[result.index + 1]
                                                * Hundredth,
                                           SCROLL_SMOOTHING, delta),
                    !.ticks = @ + 1]
    /\ UNCHANGED <<page, hist, emitted, budget, sample>>

ConfigNext ==
    \/ Mount
    \/ \E i \in 0..(Len(sample.stops) - 1) : ConfiguredClick(i)
    \/ \E delta \in Deltas : ConfiguredTick(delta)

ConfigSpec == ConfigInit /\ [][ConfigNext]_vars

\* ------------------------------------------------------------------------
\* Specification of the bio reveal: marker clicks and rendered frames, at
\* most MaxWalk together.
\* ------------------------------------------------------------------------
BioNext ==
    \/ ClickWithin(MaxWalk)
    \/ FrameWithin(MaxWalk)

BioSpec == Init /\ [][BioNext]_vars

\* ------------------------------------------------------------------------
\* Specification of the project cards' reveal: marker clicks and rendered
\* frames, at most MaxWalk together, and React's renders of the cards.
\* ------------------------------------------------------------------------
CardNext ==
    \/ ClickWithin(MaxWalk)
    \/ FrameWithin(MaxWalk)
    \/ CardRender /\ UNCHANGED <<hist, rest>>

CardSpec == Init /\ [][CardNext]_vars

\* ========================================================================
\* Claims
\* ========================================================================
LastStop == StopCount - 1
WheelStep == \E deltaY \in Pulses : OnWheel(deltaY)
ClickStep == \E i \in Stops : MarkerClick(i)
FrameStep == \E delta \in Deltas : Frame(delta)

\* C1 as stated: while a positive wheel gesture holds the lock, wheel input
\* has changed the stop index exactly once, from whatever stop it started at.
C1_ExactlyOneAlways ==
    (locked /\ gesture.dir = 1) => gesture.moves = 1

\* C1 (amended): a burst of positive pulses whose running sum reaches the
\* threshold moves the stop index by wheel input exactly once, by one stop,
\* when it starts below the last stop, and not at all when it starts at the
\* last stop, however many more pulses arrive before the cooldown expires.
C1_OneStepPerGesture ==
    (locked /\ gesture.dir = 1) =>
        /\ gesture.moves = (IF gesture.from < LastStop THEN 1 ELSE 0)
        /\ (lastEvent[1] = "wheel" =>
              currentSection =
                 (IF pre.locked THEN pre.section ELSE gesture.from + gesture.moves))

\* a trigger taken at stop 0 followed by MaxBurst further pulses of the burst
C1_Witness ==
    /\ locked
    /\ gesture = [from |-> 0, dir |-> 1, pulses |-> MaxBurst, moves |-> 1]
    /\ lastEvent[1] = "wheel"
    /\ currentSection = 1

\* C2: the stop index is always one of 0..StopCount-1, and a wheel pulse that
\* changes it changes it by exactly one.
C2_IndexInRange ==
    /\ [](currentSection \in Stops)
    /\ [][WheelStep /\ currentSection' # currentSection
            => Abs(currentSection' - currentSection) = 1]_vars

\* the wheel stepped back from the last stop while the camera was under way
C2_Witness ==
    /\ locked
    /\ currentSection = LastStop - 1
    /\ scroll > StopProgress(LastStop - 1)
    /\ prevCount = Len(THRESHOLDS)

\* C3: Progress stays within [0, 1].
C3_ProgressInUnitInterval == scroll >= 0 /\ scroll <= FINE

\* Progress has travelled to within a thousandth of the last stop
C3_Witness ==
    /\ currentSection = LastStop
    /\ scroll > StopProgress(LastStop) - Thousandth
    /\ scroll <= StopProgress(LastStop)

\* C4: a marker click sets the stop index to the marker's index and leaves
\* Progress as it is; Progress changes only in a frame with elapsed time.
C4_JumpDoesNotTeleport ==
    /\ [][\A i \in Stops :
            MarkerClick(i) => currentSection' = i /\ scroll' = scroll]_vars
    /\ [][scroll' # scroll => \E delta \in Deltas \ {0} : Frame(delta)]_vars

\* marker 4 was clicked from the hero stop and no frame has run yet
C4_Witness ==
    /\ currentSection = 4
    /\ scroll = 0
    /\ ~locked
    /\ wheelAccum = 0

\* C5: with the stop index held at a stop whose progress is above (below)
\* the current Progress, a frame of any elapsed time never moves Progress
\* down (up) and never carries it past the stop's progress.
C5_MonotoneApproach ==
    [][\A delta \in Deltas :
         Frame(delta) =>
            LET target == StopProgress(currentSection) IN
            /\ scroll < target => (scroll <= scroll' /\ scroll' <= target)
            /\ scroll > target => (target <= scroll' /\ scroll' <= scroll)]_vars

\* Progress is strictly between two stops on its way up, and its motion has
\* been seen by the velocity estimate
C5_Witness ==
    /\ currentSection = 3
    /\ scroll > StopProgress(2)
    /\ scroll < StopProgress(3)
    /\ velocity > 0

\* C6: a pulse that reaches the positive threshold at the last stop leaves
\* the index at the last stop, one that reaches the negative threshold at
\* stop 0 leaves it at 0, and the handler accepts every pulse in every state.
C6_BoundaryIsNoOp ==
    /\ \A deltaY \in Pulses : ENABLED OnWheel(deltaY)
    /\ (lastEvent[1] = "wheel" /\ ~pre.locked) =>
          LET accum == pre.accum + lastEvent[2] IN
          /\ (accum >= WHEEL_THRESHOLD /\ pre.section = LastStop)
                => currentSection = LastStop
          /\ (accum <= -WHEEL_THRESHOLD /\ pre.section = 0)
                => currentSection = 0

\* a pulse reached the positive threshold while the index was the last stop
C6_Witness ==
    /\ lastEvent[1] = "wheel"
    /\ ~pre.locked
    /\ pre.accum + lastEvent[2] >= WHEEL_THRESHOLD
    /\ pre.section = LastStop
    /\ currentSection = LastStop

\* C7: a wheel pulse that arrives while the stepper is locked changes neither
\* the index, the accumulator, the lock nor the set of pending timers.
C7_LockedPulseIgnored ==
    (lastEvent[1] = "wheel" /\ pre.locked) => StepperState = pre

\* a pulse large enough to trigger arrived during the cooldown
C7_Witness ==
    /\ lastEvent = <<"wheel", -MaxPulseSteps * PulseUnit>>
    /\ pre.locked
    /\ gesture.pulses >= 2

\* C8: the stepper starts idle with an empty accumulator; an unlocked pulse
\* that brings the accumulator to the threshold or beyond steps the index by
\* one stop (clamped), empties the accumulator, locks and starts one timer;
\* one that leaves it strictly inside the thresholds changes the accumulator
\* only.
C8_StepperTransitions ==
    /\ lastEvent[1] = "init" => (~locked /\ wheelAccum = 0 /\ timers = 0)
    /\ (lastEvent[1] = "wheel" /\ ~pre.locked) =>
          LET accum == pre.accum + lastEvent[2] IN
          /\ accum >= WHEEL_THRESHOLD =>
                StepperState = [section |-> Min(pre.section + 1, LastStop),
                                accum |-> 0, locked |-> TRUE,
                                timers |-> pre.timers + 1]
          /\ accum <= -WHEEL_THRESHOLD =>
                StepperState = [section |-> Max(pre.section - 1, 0),
                                accum |-> 0, locked |-> TRUE,
                                timers |-> pre.timers + 1]
          /\ (accum > -WHEEL_THRESHOLD /\ accum < WHEEL_THRESHOLD) =>
                StepperState = [pre EXCEPT !.accum = accum]

\* two half-threshold pulses brought the accumulator to exactly the threshold
C8_Witness ==
    /\ lastEvent = <<"wheel", PulseUnit>>
    /\ ~pre.locked
    /\ pre.accum + PulseUnit = WHEEL_THRESHOLD
    /\ locked
    /\ currentSection = pre.section + 1

\* C9: whenever the stepper is locked it is later idle again, and the lock is
\* released by nothing but the timer callback.
C9_LockedLeadsToIdle ==
    /\ locked ~> ~locked
    /\ [][(locked /\ ~locked') => TimerExpire]_vars

\* the timer callback has released a lock
C9_Witness ==
    /\ lastEvent[1] = "timer"
    /\ pre.locked
    /\ ~locked
    /\ timers = 0

\* C10 as stated: an input call changes neither the stop index nor any other
\* sequencer state; they change only in a frame.
C10_InputsOnlyQueue ==
    [][(WheelStep \/ ClickStep) =>
          UNCHANGED <<currentSection, scroll, velocity, prevCount>>]_vars

\* C10 (amended): an input call writes the stop index (and the stepper's
\* accumulator, lock and timer) in the event handler itself; Progress, the
\* velocity estimate, the field of view, the checkpoint count and the
\* scene's reveals are untouched by input calls and change only in a frame
\* callback, the ethos tick or a render of what those requested.
C10_InputsLeaveSequencer ==
    /\ [][(WheelStep \/ ClickStep) => UNCHANGED <<sequencer, scene>>]_vars
    /\ [][<<scroll, prevScroll, velocity, cameraFov>>'
             # <<scroll, prevScroll, velocity, cameraFov>> => FrameStep]_vars
    /\ [][prevCount' # prevCount => EthosTick]_vars
    /\ [][activeCount' # activeCount => EthosRender]_vars
    /\ [][scene' # scene => (FrameStep \/ CardRender)]_vars

\* a wheel trigger has moved the index back to the first stop while
\* Progress, the velocity estimate and the checkpoint count still hold
\* what the frame and the tick left on the way to stop 1
C10_Witness ==
    /\ currentSection = 0
    /\ locked
    /\ scroll > StopProgress(1) - Hundredth
    /\ velocity > 0
    /\ prevCount = 1
    /\ activeCount = 0

\* ------------------------------------------------------------------------
\* C11: damping is frame-rate independent.  However an interval is cut
\* into steps (up to MaxParts equal steps, uneven steps, empty steps), the
\* value after the last step is within 1e-4 of the value one call over the
\* whole interval returns.
\* ------------------------------------------------------------------------
Tolerance == FINE \div 10000

C11_SplitMatchesWhole ==
    (sample \in DampSamples /\ result.left = 0) =>
        Abs(result.value - dampFine(sample.current, sample.target,
                                    sample.smoothing, sample.total))
            <= Tolerance

\* an interval has been consumed in more than one step and the value moved
C11_Witness ==
    /\ sample \in DampSamples
    /\ result.left = 0
    /\ result.value # sample.current
    /\ result.value # dampFine(sample.current, sample.target,
                               sample.smoothing, sample.total)

\* ------------------------------------------------------------------------
\* C12: keyframe location is total and clamped.  At or below the first
\* keyframe the first pair is chosen with eased fraction 0; at or beyond
\* the last keyframe the last pair with eased fraction 1; any other
\* progress lies inside the chosen pair; the start index is always in
\* 0..PathLength-2.
\* ------------------------------------------------------------------------
IsZero(x) == SameValue(x.num, ZeroDouble)
IsOne(x) == SameValue(x.num, x.den)

C12_LocationTotalAndClamped ==
    (sample \in Progresses /\ result # None) =>
        /\ result.startIndex \in 0..(PathLength - 2)
        /\ sample <= keyframeT(0) =>
              result.startIndex = 0 /\ result.easeT = 0
        /\ sample >= keyframeT(PathLength - 1) =>
              result.startIndex = PathLength - 2 /\ result.easeT = FINE
        /\ (sample > keyframeT(0) /\ sample < keyframeT(PathLength - 1)) =>
              /\ keyframeT(result.startIndex) <= sample
              /\ sample <= keyframeT(result.startIndex + 1)

\* a progress beyond the last keyframe has been located
C12_Witness ==
    /\ sample \in Progresses
    /\ result # None
    /\ sample > keyframeT(PathLength - 1)
    /\ result.startIndex = PathLength - 2

\* ------------------------------------------------------------------------
\* C13 as stated: keyframes are hit exactly.  When progress equals a
\* keyframe's t, the interpolated position, look target, base fov and path
\* roll are the keyframe's own, on the pair the lookup chooses and on
\* either pair that touches the keyframe.
\* ------------------------------------------------------------------------
SameVector(u, v) == \A c \in 1..3 : SameValue(u[c], v[c])
SamePose(target, k) ==
    /\ SameVector(target.pos, KeyframePose(k).pos)
    /\ SameVector(target.look, KeyframePose(k).look)
    /\ target.baseFov = KeyframePose(k).baseFov
    /\ target.pathRoll = KeyframePose(k).pathRoll

C13_KeyframesHitExactly ==
    (sample \in Progresses /\ result # None) =>
        \A j \in 0..(PathLength - 1) :
            sample = keyframeT(j) =>
                /\ SamePose(result, keyframe(j))
                /\ \A i \in {j - 1, j} \cap (0..(PathLength - 2)) :
                       SamePose(SegmentTarget(i, sample), keyframe(j))

\* x is no further from y than k of the steps between y and the doubles
\* next to it
WithinUlps(x, y, k, D) ==
    LET d == SumExact(x, Negate(y))
        q == UlpBits(IF Negative(y) THEN Negate(y) ELSE y, D)
    IN /\ d.n = 0
       /\ \/ d.off = 0
          \/ /\ y.n # 0
             /\ IF d.p >= q THEN Abs(d.off) <= k * D * 2 ^ (d.p - q)
                ELSE Abs(d.off) * 2 ^ (q - d.p) <= k * D
\* x is y or one of the two doubles next to y
WithinOneUlp(x, y, D) == WithinUlps(x, y, 1, D)
NearVector(u, v) == \A c \in 1..3 : WithinOneUlp(u[c], v[c], PoseUnits)
NearPose(target, k) ==
    /\ NearVector(target.pos, KeyframePose(k).pos)
    /\ NearVector(target.look, KeyframePose(k).look)
    /\ target.baseFov = KeyframePose(k).baseFov
    /\ target.pathRoll = KeyframePose(k).pathRoll

\* the keyframe of the shipped path whose height the pair ending at it
\* does not reproduce: the one at t = 0.08, where the ethos section is
\* entered, with y = 0.3 after y = 1
RoundedKeyframe ==
    CHOOSE j \in 1..(PathLength - 1) : keyframeT(j) = ETHOS_ENTER * Hundredth

\* C13, amended: when progress equals a keyframe's t, the pair that starts
\* at the keyframe gives the keyframe's own position, look target, base
\* fov and path roll exactly; the pair that ends at it, which is the one
\* the lookup chooses for every keyframe but the first, gives the
\* keyframe's base fov and path roll exactly and each component of
\* position and look target as start + (end - start) in doubles, which is
\* the keyframe's value or a double next to it.  On the shipped path it is
\* the keyframe's value everywhere but in the height of the keyframe at
\* t = 0.08, where 1 + (0.3 - 1) is the double next above 0.3.
C13_KeyframesHitWithinRounding ==
    (sample \in Progresses /\ result # None) =>
        \A j \in 0..(PathLength - 1) :
            sample = keyframeT(j) =>
                /\ result.startIndex = Max(j - 1, 0)
                /\ NearPose(result, keyframe(j))
                /\ j <= PathLength - 2 =>
                       SamePose(SegmentTarget(j, sample), keyframe(j))
                /\ j >= 1 =>
                       NearPose(SegmentTarget(j - 1, sample), keyframe(j))
                /\ (j >= 1 /\ j # RoundedKeyframe) =>
                       SamePose(SegmentTarget(j - 1, sample), keyframe(j))
                /\ j = RoundedKeyframe =>
                       LET ending == SegmentTarget(j - 1, sample).pos
                           own == KeyframePose(keyframe(j)).pos
                       IN /\ Below(own[2], ending[2])
                          /\ SameValue(ending[1], own[1])
                          /\ SameValue(ending[3], own[3])

\* an interior keyframe has been located on the pair that ends at it, and
\* a component of the position is a double next to the keyframe's
C13_Witness ==
    /\ sample \in Progresses
    /\ result # None
    /\ \E j \in 1..(PathLength - 2) :
          /\ sample = keyframeT(j)
          /\ result.startIndex = j - 1
          /\ result.easeT = FINE
          /\ ~SameVector(result.pos, KeyframePose(keyframe(j)).pos)
          /\ NearVector(result.pos, KeyframePose(keyframe(j)).pos)

\* ------------------------------------------------------------------------
\* C14 as stated: the ethos opacity is in [0, 1]; it is 0 at or below the
\* enter progress and at or above the exit progress, 1 from enter + band
\* to exit - band, does not fall as progress rises across the enter band
\* and does not rise across the exit band; it is the smaller of the two
\* clamped ramps.
\* ------------------------------------------------------------------------
EnterAt == ETHOS_ENTER * Hundredth
ExitAt == ETHOS_EXIT * Hundredth
BandAt == FADE_BAND * Thousandth
\* a fraction of the band as a number in 0..BandAt
Ramp(x) == clamp(x, 0, BandAt)
\* the decimal the numerator of an opacity belongs to, at nine decimals
Nominal(o) == o.num.n * (FINE \div GRID)

\* what holds of the opacity at every progress
OpacityEnvelope(at, o, before) ==
    /\ SameValue(o.den, FadeBand)
    /\ ~Below(o.num, ZeroDouble)
    /\ ~Below(o.den, o.num)
    /\ (at <= EnterAt \/ at >= ExitAt) => IsZero(o)
    /\ (at > EnterAt /\ at <= EnterAt + BandAt) => ~Below(o.num, before.num)
    /\ (at > ExitAt - BandAt /\ at <= ExitAt) => ~Below(before.num, o.num)
    /\ Nominal(o) = Min(Ramp(at - EnterAt), Ramp(ExitAt - at))

C14_OpacityEnvelope ==
    (sample \in GridProgresses /\ result # None) =>
        LET o == result.opacity
        IN /\ OpacityEnvelope(sample, o, EthosOpacity(sample - GridStep))
           /\ (sample >= EnterAt + BandAt /\ sample <= ExitAt - BandAt)
                 => IsOne(o)

\* C14, amended: the ethos opacity is in [0, 1]; it is 0 at or below the
\* enter progress and at or above the exit progress, 1 strictly between
\* enter + band and exit - band, does not fall as progress rises across
\* the enter band and does not rise across the exit band; it is the
\* smaller of the two clamped ramps as the doubles compute them, so that
\* at enter + band and at exit - band themselves, where the difference
\* the ramp divides is the second double below the band, it is just
\* below 1.
C14_OpacityEnvelopeInDoubles ==
    (sample \in GridProgresses /\ result # None) =>
        LET o == result.opacity
        IN /\ OpacityEnvelope(sample, o, EthosOpacity(sample - GridStep))
           /\ (sample > EnterAt + BandAt /\ sample < ExitAt - BandAt)
                 => IsOne(o)
           /\ sample \in {EnterAt + BandAt, ExitAt - BandAt} =>
                 /\ Below(o.num, o.den)
                 /\ Nominal(o) = BandAt
                 /\ WithinUlps(o.num, o.den, 2, GRID)
                 /\ ~WithinOneUlp(o.num, o.den, GRID)

\* the inner edge of the exit band has been evaluated: the difference the
\* ramp divides is below the band, and the opacity below 1
C14_Witness ==
    /\ sample \in GridProgresses
    /\ result # None
    /\ sample = ExitAt - BandAt
    /\ Below(result.opacity.num, result.opacity.den)
    /\ ~IsZero(result.opacity)

\* ------------------------------------------------------------------------
\* C15: the active checkpoint count is the number of thresholds at or
\* below the clamped local progress of the ethos section; it is in 0..3,
\* does not fall as progress rises, becomes 1, 2, 3 exactly where local
\* progress reaches 0.12, 0.48, 0.80 (inclusive), and checkpoint i is
\* active iff i < count.  Local progress is the quotient the tick
\* computes: at the one progress where the exact quotient is 0.12 the
\* computed one is below it, at those for 0.48 and 0.80 it is not.
\* ------------------------------------------------------------------------
\* the progress at which the exact local progress equals threshold k
ThresholdAt(k) == EnterAt + THRESHOLDS[k] * ((ExitAt - EnterAt) \div SCALE)

C15_CountIsThresholdPrefix ==
    (sample \in GridProgresses /\ result # None) =>
        /\ result.count \in 0..Len(THRESHOLDS)
        /\ \A k \in 1..Len(THRESHOLDS) :
              /\ sample > ThresholdAt(k) => result.count >= k
              /\ sample < ThresholdAt(k) => result.count < k
              /\ sample = ThresholdAt(k) =>
                    (result.count >= k <=> ~QuotientFallsShort[k])
        /\ result.count >= EthosCount(sample - GridStep)
        /\ \A i \in 0..(Len(THRESHOLDS) - 1) :
              i \in result.active <=> i < result.count

\* a progress exactly on the second threshold has been evaluated
C15_Witness ==
    /\ sample \in GridProgresses
    /\ result # None
    /\ sample = ThresholdAt(2)
    /\ result.count = 2
    /\ result.active = {0, 1}

\* ------------------------------------------------------------------------
\* C16: checkpoint events fire only on change.  An ethos tick calls
\* setActiveCount iff the count it computes differs from the last count it
\* emitted (prevCountRef); a tick that computes the count already emitted
\* emits nothing; after every tick the last emitted count is the count for
\* the current progress; and the count React renders is never anything
\* but the last emitted count.
\* ------------------------------------------------------------------------
C16_EmitsOnlyOnChange ==
    /\ [][EthosFrame =>
            /\ emitted' <=> (EthosCount(scroll) # prevCount)
            /\ EthosCount(scroll) = prevCount =>
                  (~emitted' /\ prevCount' = prevCount)
            /\ prevCount' = EthosCount(scroll')]_vars
    /\ [][activeCount' # activeCount => activeCount' = prevCount']_vars

\* the last tick emitted the full count, React has rendered it, and the
\* progress still computes it
C16_Witness ==
    /\ emitted
    /\ prevCount = Len(THRESHOLDS)
    /\ activeCount = prevCount
    /\ EthosCount(scroll) = prevCount
    /\ ~EthosEmits

\* ------------------------------------------------------------------------
\* C17: the velocity estimate is in [0, 1] in every reachable state, and
\* it is computed with a denominator of at least 0.001 s, for a frame
\* delta of 0 as for any other, so that the value it is damped toward is a
\* number in [0, 1] as well.
\* ------------------------------------------------------------------------
C17_VelocityInUnitInterval ==
    /\ velocity >= 0
    /\ velocity <= FINE
    /\ \A delta \in Deltas :
          LET target ==
                VelocityTarget(ScrollSmoother(scroll, currentSection, delta),
                               prevScroll, delta)
          IN /\ VelocityDenominator(delta) >= 1
             /\ target >= 0
             /\ target <= FINE

\* the estimate is within a hundredth of its ceiling while Progress is on
\* the move, fast enough for the unclamped target to pass 1
C17_Witness ==
    /\ velocity > FINE - Hundredth
    /\ scroll # StopProgress(currentSection)
    /\ VelocityTargetUnclamped(ScrollSmoother(scroll, currentSection, 100),
                               prevScroll, 100) > FINE

\* ------------------------------------------------------------------------
\* C18: velocity decays when Progress stops.  A tick that leaves Progress
\* where it was never raises the estimate, and once such ticks add up to
\* one second the estimate is below 0.01, whatever it started from.
\* ------------------------------------------------------------------------
C18_VelocityDecays ==
    /\ []((sample \in VelocitySamples /\ result.ms >= MS) =>
            result.velocity < Hundredth)
    /\ [][result'.velocity <= result.velocity]_vars

\* a second of ticks without progress has brought the estimate from its
\* ceiling to below 0.01
C18_Witness ==
    /\ sample \in VelocitySamples
    /\ sample.velocity = FINE
    /\ result.ms >= MS
    /\ result.velocity > 0
    /\ result.velocity < Hundredth

\* ------------------------------------------------------------------------
\* C19: after a jump to a later stop over a stretch of the path on which
\* the keyframe fov falls, the camera's field of view never rises from one
\* tick to the next and never goes below the fov at the stop.
\* ------------------------------------------------------------------------
BaseFov(t) == CameraTarget(t).baseFov
EndFov == BaseFov(StopProgress(currentSection))

\* the base fov does not rise from one hundredth to the next anywhere
\* between stop a and stop b
FovFalls(a, b) ==
    \A h \in SECTION_STOPS[a + 1]..(SECTION_STOPS[b + 1] - 1) :
        BaseFov((h + 1) * Hundredth) <= BaseFov(h * Hundredth)

\* the one jump has been made, from the first stop to a later stop, over a
\* stretch on which the fov falls all the way
JumpedDown ==
    /\ lastEvent[1] = "click"
    /\ currentSection > pre.section
    /\ FovFalls(pre.section, currentSection)
    /\ BaseFov(StopProgress(pre.section)) > EndFov

\* the claim as stated
C19_FovFallsMonotonically ==
    [][(JumpedDown /\ FrameStep) =>
          (cameraFov' <= cameraFov /\ cameraFov' >= EndFov)]_vars

\* C19 as amended: after such a jump the path's base fov, the target of
\* the field of view before the velocity kick, never rises from one tick
\* to the next and never goes below the fov at the stop; the camera's
\* field of view never goes below the fov at the stop either, and stays
\* within the kick of FOV_KICK degrees above the fov it started from.
C19_BaseFovFallsCameraStaysAbove ==
    [][(JumpedDown /\ FrameStep) =>
          /\ BaseFov(scroll') <= BaseFov(scroll)
          /\ BaseFov(scroll') >= EndFov
          /\ cameraFov' >= EndFov
          /\ cameraFov' <= (INITIAL_FOV + FOV_KICK) * FOVSCALE]_vars

\* after a jump down the falling stretch the field of view is above the
\* fov it started from
C19_Witness ==
    /\ JumpedDown
    /\ scroll > StopProgress(pre.section)
    /\ cameraFov > INITIAL_FOV * FOVSCALE

\* ------------------------------------------------------------------------
\* C20: the configuration is validated before the sequencer runs.  With
\* stops that are not strictly increasing, or a path that does not start
\* at 0.0 and end at 1.0, set-up fails and no tick ever executes: the page
\* is mounted, and a tick has run, only on a valid configuration.
\* ------------------------------------------------------------------------
\* strictly increasing stops, a path from 0.0 to 1.0
ValidConfig(c) ==
    /\ \A k \in 1..(Len(c.stops) - 1) : c.stops[k] < c.stops[k + 1]
    /\ c.first = 0
    /\ c.last = SCALE

C20_InvalidConfigurationRefused ==
    (sample \in Configs /\ result # None) => ValidConfig(sample)

\* ------------------------------------------------------------------------
\* C21: the shipped configuration satisfies the data-model invariants.
\* SECTION_STOPS is strictly increasing and within [0, 1]; CAMERA_PATH is
\* strictly increasing in t, starts at 0.0 and ends at 1.0; so no keyframe
\* pair has zero width, and every progress in [0, 1] is located on a pair
\* that contains it.
\* ------------------------------------------------------------------------
StrictlyIncreasing(seq) ==
    \A k \in 1..(Len(seq) - 1) : seq[k] < seq[k + 1]

PathTimes == [k \in 1..PathLength |-> CAMERA_PATH[k].t]

C21_ShippedConfigurationValid ==
    /\ StrictlyIncreasing(SECTION_STOPS)
    /\ \A k \in 1..StopCount : SECTION_STOPS[k] \in 0..SCALE
    /\ StrictlyIncreasing(PathTimes)
    /\ PathTimes[1] = 0
    /\ PathTimes[PathLength] = SCALE
    /\ (result # None /\ sample \in Progresses
          /\ sample >= 0 /\ sample <= FINE) =>
          /\ keyframeT(result.startIndex) < keyframeT(result.startIndex + 1)
          /\ keyframeT(result.startIndex) <= sample
          /\ sample <= keyframeT(result.startIndex + 1)

\* a progress strictly inside a keyframe pair has been located on it
C21_Witness ==
    /\ result # None
    /\ sample \in Progresses
    /\ keyframeT(result.startIndex) < sample
    /\ sample < keyframeT(result.startIndex + 1)
    /\ result.startIndex > 0

\* ------------------------------------------------------------------------
\* C22: the timeline comes to rest at a stop.  If from some point on the
\* stop index no longer changes and frames with positive delta keep
\* arriving, Progress ends up, and stays, within the model's resolution of
\* SECTION_STOPS[index]; and Progress is at rest (no frame moves it) only
\* that close to the stop of the index.
\* ------------------------------------------------------------------------
Resolution == FINE \div MICRO

NearStop(i) == Abs(scroll - StopProgress(i)) <= Resolution

AtRest ==
    \A delta \in Deltas : ScrollSmoother(scroll, currentSection, delta) = scroll

C22_ComesToRestAtStop ==
    /\ \A i \in Stops : <>[](currentSection = i) => <>[]NearStop(i)
    /\ [](AtRest => NearStop(currentSection))

\* Progress has come to rest on a stop other than the first
C22_Witness ==
    /\ currentSection > 0
    /\ NearStop(currentSection)
    /\ AtRest
    /\ velocity = 0

\* ------------------------------------------------------------------------
\* C23: the stops match the ethos checkpoints.  Once the ethos tick has
\* run with Progress resting on a stop, the active count is 0 at stop 0,
\* 2 at stop 1 (0.16), 3 at stop 2 (0.22) and 3 at stops 3..6.
\* ------------------------------------------------------------------------
CountAtStop(i) == IF i = 0 THEN 0 ELSE IF i = 1 THEN 2 ELSE Len(THRESHOLDS)

\* Progress is within a thousandth of stop i, the tick has run there and
\* React has rendered what it emitted
RestsOnStop(i) ==
    /\ currentSection = i
    /\ Abs(scroll - StopProgress(i)) <= Thousandth
    /\ ~EthosEmits
    /\ activeCount = prevCount

C23_StopsMatchCheckpoints ==
    \A i \in Stops :
        /\ EthosCount(StopProgress(i)) = CountAtStop(i)
        /\ RestsOnStop(i) =>
              /\ activeCount = CountAtStop(i)
              /\ ActiveCheckpoints(activeCount) = 0..(CountAtStop(i) - 1)

\* Progress rests on stop 1 and the tick has made two checkpoints active
C23_Witness ==
    /\ RestsOnStop(1)
    /\ activeCount = 2
    /\ emitted

\* ------------------------------------------------------------------------
\* C24: whenever the stepper is locked the accumulator is 0, and after
\* every wheel handler the accumulator is strictly inside the thresholds;
\* a pulse that arrives during the cooldown adds nothing to it, so the
\* idle period that follows the unlock starts from 0.
\* ------------------------------------------------------------------------
C24_AccumulatorEmptyWhileLocked ==
    /\ locked => wheelAccum = 0
    /\ wheelAccum > -WHEEL_THRESHOLD
    /\ wheelAccum < WHEEL_THRESHOLD
    /\ (lastEvent[1] = "wheel" /\ pre.locked) => wheelAccum = 0
    /\ lastEvent[1] = "timer" => wheelAccum = 0

\* a pulse of threshold size arrived during the cooldown and left nothing
C24_Witness ==
    /\ lastEvent[1] = "wheel"
    /\ lastEvent[2] >= WHEEL_THRESHOLD
    /\ pre.locked
    /\ locked
    /\ wheelAccum = 0

\* ------------------------------------------------------------------------
\* C25: a qualifying pulse at a boundary stop is not a full no-op.  Idle
\* at the last stop (at stop 0 for a negative pulse), reaching the
\* threshold leaves the index where it is but empties the accumulator,
\* locks and starts the cooldown; until the timer expires wheel pulses in
\* the opposite direction are ignored like any other.
\* ------------------------------------------------------------------------
BoundaryTrigger ==
    /\ lastEvent[1] = "wheel"
    /\ ~pre.locked
    /\ \/ (pre.accum + lastEvent[2] >= WHEEL_THRESHOLD
            /\ pre.section = LastStop)
       \/ (pre.accum + lastEvent[2] <= -WHEEL_THRESHOLD
            /\ pre.section = 0)

\* the lock is held by a trigger taken at a boundary stop, toward the
\* outside
BoundaryLock ==
    /\ locked
    /\ \/ (gesture.from = LastStop /\ gesture.dir = 1)
       \/ (gesture.from = 0 /\ gesture.dir = -1)

C25_BoundaryTriggerStillLocks ==
    /\ BoundaryTrigger =>
          StepperState = [section |-> pre.section, accum |-> 0,
                          locked |-> TRUE, timers |-> pre.timers + 1]
    /\ BoundaryLock => gesture.moves = 0
    /\ (BoundaryLock /\ lastEvent[1] = "wheel" /\ pre.locked) =>
          StepperState = pre

\* during the cooldown of a trigger at the last stop, a pulse of threshold
\* size in the opposite direction arrived and moved nothing
C25_Witness ==
    /\ BoundaryLock
    /\ gesture.from = LastStop
    /\ lastEvent[1] = "wheel"
    /\ lastEvent[2] <= -WHEEL_THRESHOLD
    /\ pre.locked
    /\ currentSection = LastStop

\* ------------------------------------------------------------------------
\* C26: at most one cooldown timer is pending at any time, and the stepper
\* is locked exactly when one is pending.  A timer is started only by a
\* wheel trigger taken while unlocked, and a timer that expires is the one
\* timer of the lock it releases: it leaves nothing pending, so no expiry
\* can release a lock established by a later trigger.
\* ------------------------------------------------------------------------
C26_OneTimerIffLocked ==
    /\ [](timers \in {0, 1} /\ (locked <=> timers = 1))
    /\ [][timers' > timers =>
            /\ ~locked
            /\ WheelStep
            /\ locked'
            /\ timers' = timers + 1]_vars
    /\ [][(timers' < timers) =>
            /\ TimerExpire
            /\ locked
            /\ ~locked'
            /\ timers' = 0]_vars

\* a second lock: a retreat trigger taken while unlocked and with nothing
\* pending, one stop below a stop reached earlier
C26_Witness ==
    /\ lastEvent[1] = "wheel"
    /\ ~pre.locked
    /\ pre.timers = 0
    /\ pre.section > 0
    /\ currentSection = pre.section - 1
    /\ locked
    /\ timers = 1

\* ------------------------------------------------------------------------
\* C27: marker clicks are not gated by the stepper.  A click on marker i
\* sets the stop index to i whether the stepper is idle or locked and
\* changes neither the lock, the pending timer nor the accumulator; the
\* wheel trigger that follows steps by one (clamped) from the clicked index.
\* ------------------------------------------------------------------------
AfterClick == lastEvent[1] = "click"
Clicked == lastEvent[2]

C27_ClickIgnoresLock ==
    /\ [](AfterClick =>
            StepperState = [pre EXCEPT !.section = Clicked])
    /\ [][(AfterClick /\ WheelStep /\ timers' > timers) =>
            currentSection' =
              IF lastEvent'[2] > 0 THEN NextStop(Clicked)
              ELSE PrevStop(Clicked)]_vars

\* a click during the cooldown moved the index by more than one stop and
\* left the lock and its timer in place
C27_Witness ==
    /\ AfterClick
    /\ pre.locked
    /\ locked
    /\ timers = 1
    /\ currentSection = Clicked
    /\ Abs(currentSection - pre.section) > 1

\* ------------------------------------------------------------------------
\* C28: progress never exceeds the progress of the last stop (0.96) and
\* never goes below that of the first (0.00), so the final keyframe at
\* t = 1.00 is never reached and the bio overlay's opacity never exceeds
\* 0.6.
\* ------------------------------------------------------------------------
C28_ProgressWithinStops ==
    /\ scroll >= StopProgress(0)
    /\ scroll <= StopProgress(LastStop)
    /\ scroll < keyframeT(PathLength - 1)
    /\ ~SamePose(CameraTarget(scroll), keyframe(PathLength - 1))
    /\ BioOpacity(scroll).num * 10 <= 6 * BioOpacity(scroll).den

\* the page has come within a thousandth of the last stop, with the bio
\* panel shown at more than 0.5
C28_Witness ==
    /\ currentSection = LastStop
    /\ scroll > StopProgress(LastStop) - Thousandth
    /\ prevScroll = scroll
    /\ BioVisible(scroll)
    /\ BioOpacity(scroll).num * 10 > 5 * BioOpacity(scroll).den

\* ------------------------------------------------------------------------
\* C29: the bio phase machine changes phase only along idle -> debris ->
\* collapse -> appeared -> afterglow, or from a non-idle phase back to
\* idle.  It leaves idle only on a frame with progress >= 0.86, returns to
\* idle exactly on a frame with progress < 0.82, makes at most one
\* transition per frame, and afterglow persists for as long as progress
\* stays >= 0.82.
\* ------------------------------------------------------------------------
PhaseIndex(p) == CHOOSE k \in 1..Len(Phases) : Phases[k] = p
BioStep == \E delta \in Deltas : Frame(delta)

C29_PhaseMachine ==
    /\ [][phase' # phase =>
            /\ BioStep
            /\ \/ PhaseIndex(phase') = PhaseIndex(phase) + 1
               \/ phase' = "idle"]_vars
    /\ [][(phase = "idle" /\ phase' # "idle") =>
            scroll' >= BIO_ENTER * Hundredth]_vars
    /\ [][(BioStep /\ phase # "idle") =>
            (phase' = "idle" <=> scroll' < BIO_LEAVE * Hundredth)]_vars
    /\ [][(BioStep /\ phase = "afterglow"
              /\ scroll' >= BIO_LEAVE * Hundredth) =>
            phase' = "afterglow"]_vars

\* the reveal ran through to afterglow with the page at the bio stop
C29_Witness ==
    /\ phase = "afterglow"
    /\ Greater(phaseTimer, AppearedTime)
    /\ scroll > StopProgress(LastStop) - Thousandth

\* ------------------------------------------------------------------------
\* C30: each project card's reveal is a one-way latch.  Its scan is
\* activated at most once, on the first frame with progress >= appear -
\* 0.015; the scan's completion callback runs at most once and only after
\* activation; and once the card's appeared flag is true it never becomes
\* false again, even if progress later returns below the threshold.
\* ------------------------------------------------------------------------
C30_RevealIsOneWayLatch ==
    /\ [](\A c \in Cards :
            /\ ~scanFired[c] => ~ScanDue(PROJECT_CARDS[c], scroll)
            /\ appeared[c] => scanDone[c]
            /\ scanDone[c] => scanActive[c]
            /\ scanActive[c] => scanFired[c])
    /\ [][\A c \in Cards :
            /\ scanFired'[c] # scanFired[c] =>
                  scanFired'[c] /\ ScanDue(PROJECT_CARDS[c], scroll')
            /\ scanActive[c] => scanActive'[c]
            /\ scanDone'[c] # scanDone[c] => scanDone'[c] /\ scanActive[c]
            /\ scanDone[c] => scanProgress'[c] = scanProgress[c]
            /\ appeared[c] => appeared'[c]]_vars

\* a card has appeared and the page has gone back below its threshold
C30_Witness ==
    \E c \in Cards :
        /\ appeared[c]
        /\ scanProgress[c] > SCAN_END
        /\ ~ScanDue(PROJECT_CARDS[c], scroll)
        /\ currentSection = 0
====
